---- MODULE Spec2Model ----
(***************************************************************************)
(* PDL: the phase lifecycle kept by the MCP server in its SQLite tables    *)
(* (mcp-server/src/server.js, mcp-server/src/db/database.js, schema.sql)   *)
(* and the in-process event bus of the browser framework (PDLFramework).   *)
(*                                                                         *)
(* The server half: the tables projects, agents, phases and events, and    *)
(* the tool calls that write them.  A tool call that awaits more than one  *)
(* statement is a little process (calls[c].pc); each SQL statement is one  *)
(* atomic step, and steps of different calls interleave at the awaits.     *)
(*                                                                         *)
(* The client half: one PDLFramework instance in a browser page.  Its      *)
(* methods run to completion (one JavaScript task each), so emit, the      *)
(* socket callbacks and registerHook are one atomic action each.           *)
(***************************************************************************)
EXTENDS Integers, Sequences, FiniteSets, TLC

\* ------------------------------------------------------------------------
\* Bounds of the model
\* ------------------------------------------------------------------------
\* number of transition_phase calls that are ever started
MaxCalls == 2

\* the history caps explored are 1..MaxCap (the constructor sets 1000)
MaxCap == 2

\* number of events the bus ever appends to its history
MaxEvents == 3

\* number of registerHook calls made after construction
MaxHooks == 1

\* number of log_event calls
MaxLogs == 1

\* the longest history of SpecSnapshot
MaxHistory == 12

\* hook priorities are 0..MaxPriority
MaxPriority == 1

\* ------------------------------------------------------------------------
\* Value sets the tool arguments are drawn from
\* ------------------------------------------------------------------------
ProjectIds == {"p1", "p2"}

\* the projects the tool calls of SpecServer are made on
ServerProjects == {"p1"}

AgentIds == {"a1"}

\* two of the names of the create_phase enum
PhaseNames == {"discovery", "planning"}

\* SQL NULL / a JavaScript undefined argument
NULL == "NULL"

\* the briefs given to log_event: one of 60 characters, one of 77
LogBriefs ==
    {"Gate G1 review passed: scope agreed, risks listed, team set.",
     "Discovery closed after three interviews, a survey and a review of the backlog"}

\* a date column holds NULL, the value create_phase gave it
\* (params.startDate || new Date().toISOString()) or the CURRENT_TIMESTAMP of
\* a transition_phase UPDATE; the model keeps which of these wrote it last
NoDate == "NULL"

StartDateParam == "startDate"

CURRENT_TIMESTAMP == "CURRENT_TIMESTAMP"

\* the row that is not in the phases table
\* rows counts the rows of table phases with the key (project_id, name)
NoPhase == [status |-> "none", start_date |-> NoDate, end_date |-> NoDate, rows |-> 0]

\* args.gateApproval when the caller gives it; NULL when it is left out
GateApprovals == {"true", "false"}

VARIABLES
    projects,   \* ids of the rows of table projects
    agents,     \* ids of the rows of table agents
    phases,     \* table phases, keyed by its UNIQUE(project_id, name)
    events,     \* table events, in insertion order
    calls,      \* the transition_phase calls started so far
    nextCall    \* number of the next transition_phase call

VARIABLES
    wsUrl,            \* this.wsUrl
    offlineMode,      \* this.offlineMode
    ws,               \* this.ws: "null", or the readyState of the socket
    timers,           \* pending setTimeout(() => this.initWebSocket())
    eventHistory,     \* this.eventHistory
    maxEventHistory,  \* this.maxEventHistory
    currentPhase,     \* this.currentPhase
    activeAgents,     \* this.activeAgents
    hooks,            \* this.hooks: event type -> array of hooks
    sent,             \* what ws.send was given, in order
    localStorage,     \* the pdl_event_<id> items of window.localStorage
    svg,              \* whether '#pdl-svg-content svg' is in the document
    seq,              \* number of values addToHistory was called with
    regs,             \* number of hooks registered
    last,             \* the last emit / incoming message / query: what it did
    pending           \* promises of async hooks that have not settled

serverVars == <<projects, agents, phases, events, calls, nextCall>>

clientVars == <<wsUrl, offlineMode, ws, timers, eventHistory, maxEventHistory,
                currentPhase, activeAgents, hooks, sent, localStorage, svg, seq,
                regs, last, pending>>

vars == <<projects, agents, phases, events, calls, nextCall,
          wsUrl, offlineMode, ws, timers, eventHistory, maxEventHistory,
          currentPhase, activeAgents, hooks, sent, localStorage, svg, seq,
          regs, last, pending>>

CallIds == 1..MaxCalls

Started == 1..(nextCall - 1)

\* ------------------------------------------------------------------------
\* database.js
\* ------------------------------------------------------------------------
\* the most characters a brief is to have
BriefMax == 60

\* String.prototype.substring(0, k)
Substring0(str, k) == IF Len(str) <= k THEN str ELSE SubSeq(str, 1, k)

\* logEvent binding params.brief as it is given
logEventUncut(ev, params) == Append(ev, params)

\* params.status || 'pending'
StatusOrPending(status) == IF status = NULL THEN "pending" ELSE status

\* INSERT INTO phases without UNIQUE(project_id, name)
createPhaseOkForeignKeyOnly(projectId, name) == projectId \in projects

\* INSERT INTO phases: FOREIGN KEY (project_id), UNIQUE(project_id, name)
createPhaseOk(projectId, name) ==
    /\ projectId \in projects
    /\ phases[<<projectId, name>>].rows = 0

\* createPhase that closes the project's active phases when it inserts an
\* active one
createPhaseClosingActive(projectId, name, status) ==
    [k \in DOMAIN phases |->
        IF k = <<projectId, name>>
        THEN [status |-> StatusOrPending(status), start_date |-> StartDateParam,
              end_date |-> NoDate, rows |-> phases[k].rows + 1]
        ELSE IF k[1] = projectId /\ status = "active" /\ phases[k].status = "active"
             THEN [phases[k] EXCEPT !.status = "completed"]
             ELSE phases[k]]

createPhase(projectId, name, status) ==
    [phases EXCEPT ![<<projectId, name>>] =
        [status |-> StatusOrPending(status), start_date |-> StartDateParam,
         end_date |-> NoDate, rows |-> phases[<<projectId, name>>].rows + 1]]

\* SELECT * FROM phases WHERE project_id = ? AND status = 'active'
ActivePhases(ph, projectId) ==
    {n \in PhaseNames : ph[<<projectId, n>>].status = "active"}

\* ... ORDER BY start_date DESC LIMIT 1: the rows the query may return (one
\* of the active rows; which one depends on the start dates)
getCurrentPhase(ph, projectId) == ActivePhases(ph, projectId)

\* INSERT INTO events: FOREIGN KEY (project_id), FOREIGN KEY (agent_id)
logEventOk(projectId, agentId) ==
    /\ projectId \in projects
    /\ agentId = NULL \/ agentId \in agents

logEvent(ev, params) == Append(ev, [params EXCEPT !.brief = Substring0(@, BriefMax)])

\* the filters given to get_events: none, one or two criteria, a phase id,
\* a limit, and the values '' and 0
EventFilters ==
    {[none |-> TRUE],
     [type |-> "phase_transition"],
     [type |-> "note", agentId |-> "a1"],
     [agentId |-> "a1"],
     [phaseId |-> "ph1"],
     [limit |-> 1],
     [type |-> "phase_transition", limit |-> 1],
     [limit |-> 0],
     [type |-> ""]}

\* if (filter.type), if (filter.phaseId), if (filter.agentId)
GivenText(filter, f) == f \in DOMAIN filter /\ filter[f] # ""

\* if (filter.limit)
GivenLimit(filter) == "limit" \in DOMAIN filter /\ filter.limit # 0

\* column phase_id of a row: no tool call of the model gives phaseId
PhaseIdOf(row) == NULL

\* the rows of SELECT * FROM events WHERE project_id = ? [AND type = ?]
\* [AND phase_id = ?] [AND agent_id = ?]
Selected(ev, projectId, filter) ==
    {i \in DOMAIN ev :
        /\ ev[i].project_id = projectId
        /\ GivenText(filter, "type") => ev[i].type = filter.type
        /\ GivenText(filter, "phaseId") => PhaseIdOf(ev[i]) = filter.phaseId
        /\ GivenText(filter, "agentId") => ev[i].agent_id = filter.agentId}

\* getEvents(projectId, filter): the sets of rows it may return.  With
\* LIMIT ?, ORDER BY timestamp DESC decides which rows; timestamp has whole
\* seconds, so rows of one second come in any order
getEvents(ev, projectId, filter) ==
    IF GivenLimit(filter) /\ filter.limit < Cardinality(Selected(ev, projectId, filter))
    THEN {S \in SUBSET Selected(ev, projectId, filter) : Cardinality(S) = filter.limit}
    ELSE {Selected(ev, projectId, filter)}

\* ------------------------------------------------------------------------
\* server.js: mcp__pdl__transition_phase
\* ------------------------------------------------------------------------
\* rows matched by WHERE project_id = ? AND name = ?
Matches(ph, projectId, name) ==
    IF ph[<<projectId, name>>] # NoPhase THEN 1 ELSE 0

\* oldPhaseSQL with WHERE name = ? alone: the rows of every project
oldPhaseSQLAnyProject(ph, projectId, fromPhase, now) ==
    [k \in DOMAIN ph |->
        IF k[2] = fromPhase /\ ph[k] # NoPhase
        THEN [ph[k] EXCEPT !.status = "completed", !.end_date = now]
        ELSE ph[k]]

\* UPDATE phases SET status = 'completed', end_date = CURRENT_TIMESTAMP
oldPhaseSQL(ph, projectId, fromPhase, now) ==
    IF ph[<<projectId, fromPhase>>] = NoPhase THEN ph
    ELSE [ph EXCEPT ![<<projectId, fromPhase>>].status = "completed",
                    ![<<projectId, fromPhase>>].end_date = now]

\* UPDATE phases SET status = 'active', start_date = CURRENT_TIMESTAMP
newPhaseSQL(ph, projectId, toPhase, now) ==
    IF ph[<<projectId, toPhase>>] = NoPhase THEN ph
    ELSE [ph EXCEPT ![<<projectId, toPhase>>].status = "active",
                    ![<<projectId, toPhase>>].start_date = now]

\* a transition_phase call that has not yet returned or thrown
InFlight(c) == c \in Started /\ calls[c].pc \in {"old", "new", "log"}

ServerInit ==
    /\ projects = {}
    /\ agents = {}
    /\ phases = [k \in ProjectIds \X PhaseNames |-> NoPhase]
    /\ events = <<>>
    /\ calls = <<>>
    /\ nextCall = 1

\* mcp__pdl__create_project: db.createProject; the uuid is a fresh id of P
CreateProject(P) ==
    /\ P \ projects # {}
    /\ projects' = projects \cup {CHOOSE p \in P : p \notin projects}
    /\ UNCHANGED <<agents, phases, events, calls, nextCall>>
    /\ UNCHANGED clientVars

\* mcp__pdl__register_agent: db.createAgent; the uuid is fresh
RegisterAgent ==
    /\ agents # AgentIds
    /\ agents' = agents \cup {CHOOSE a \in AgentIds : a \notin agents}
    /\ UNCHANGED <<projects, phases, events, calls, nextCall>>
    /\ UNCHANGED clientVars

\* mcp__pdl__create_phase: db.createPhase(args.projectId, args); a rejected
\* INSERT throws and leaves the table as it was
CreatePhase(projectId, name, status) ==
    /\ \/ /\ createPhaseOk(projectId, name)
          /\ phases' = createPhase(projectId, name, status)
       \/ /\ ~createPhaseOk(projectId, name)
          /\ UNCHANGED phases
    /\ UNCHANGED <<projects, agents, events, calls, nextCall>>
    /\ UNCHANGED clientVars

\* mcp__pdl__transition_phase up to its first await: the arguments are used
\* as they come.  fromWasActive, fromExisted, toExisted and overlapped record
\* what held when the request arrived; changes counts the rows its UPDATEs changed.
TransitionStart(projectId, fromPhase, toPhase, gateApproval, triggeredBy) ==
    /\ nextCall <= MaxCalls
    /\ calls' = Append(calls,
            [projectId |-> projectId, fromPhase |-> fromPhase, toPhase |-> toPhase,
             gateApproval |-> gateApproval, triggeredBy |-> triggeredBy,
             pc |-> "old", result |-> "pending", changes |-> 0,
             fromWasActive |-> phases[<<projectId, fromPhase>>].status = "active",
             toExisted |-> phases[<<projectId, toPhase>>] # NoPhase,
             fromExisted |-> phases[<<projectId, fromPhase>>] # NoPhase,
             overlapped |-> \E d \in Started :
                               InFlight(d) /\ calls[d].projectId = projectId])
    /\ nextCall' = nextCall + 1
    /\ UNCHANGED <<projects, agents, phases, events>>
    /\ UNCHANGED clientVars

\* a catch block that undoes the first UPDATE of the request: fromPhase is
\* active again when it was active before
catchErrorRestoring(ph, c) ==
    IF calls[c].pc = "new" /\ calls[c].fromWasActive
    THEN [ph EXCEPT ![<<calls[c].projectId, calls[c].fromPhase>>].status = "active",
                    ![<<calls[c].projectId, calls[c].fromPhase>>].end_date = NoDate]
    ELSE ph

\* catch (error) { console.error(...); throw new McpError(...) }: table
\* phases after the catch block, which runs no statement
catchError(ph, c) == ph

\* catch (error) { throw new McpError(ErrorCode.InternalError, ...) }
Fail(c) == [calls EXCEPT ![c].pc = "failed", ![c].result = "InternalError"]

\* await db.run(oldPhaseSQL, ...): the statement runs, or the database
\* rejects it and the handler throws
TransitionOld(c) ==
    /\ c \in Started /\ calls[c].pc = "old"
    /\ \/ /\ phases' = oldPhaseSQL(phases, calls[c].projectId, calls[c].fromPhase,
                                   CURRENT_TIMESTAMP)
          /\ calls' = [calls EXCEPT ![c].pc = "new",
                          ![c].changes = @ + Matches(phases, calls[c].projectId,
                                                     calls[c].fromPhase)]
       \/ /\ calls' = Fail(c)
          /\ phases' = catchError(phases, c)
    /\ UNCHANGED <<projects, agents, events, nextCall>>
    /\ UNCHANGED clientVars

\* await db.run(newPhaseSQL, ...)
TransitionNew(c) ==
    /\ c \in Started /\ calls[c].pc = "new"
    /\ \/ /\ phases' = newPhaseSQL(phases, calls[c].projectId, calls[c].toPhase,
                                   CURRENT_TIMESTAMP)
          /\ calls' = [calls EXCEPT ![c].pc = "log",
                          ![c].changes = @ + Matches(phases, calls[c].projectId,
                                                     calls[c].toPhase)]
       \/ /\ calls' = Fail(c)
          /\ phases' = catchError(phases, c)
    /\ UNCHANGED <<projects, agents, events, nextCall>>
    /\ UNCHANGED clientVars

\* the row with gateApproval: true whatever the caller gave
TransitionEventApproved(c) ==
    [call |-> c, project_id |-> calls[c].projectId, type |-> "phase_transition",
     agent_id |-> calls[c].triggeredBy,
     brief |-> "Phase transition: " \o calls[c].fromPhase \o " > " \o calls[c].toPhase,
     data |-> [fromPhase |-> calls[c].fromPhase, toPhase |-> calls[c].toPhase,
               gateApproval |-> "true"]]

\* the row the handler has db.logEvent insert; call stands for the row's
\* uuid and names the request that inserted it
TransitionEvent(c) ==
    [call |-> c, project_id |-> calls[c].projectId, type |-> "phase_transition",
     agent_id |-> calls[c].triggeredBy,
     brief |-> "Phase transition: " \o calls[c].fromPhase \o " > " \o calls[c].toPhase,
     data |-> IF calls[c].gateApproval = NULL
              THEN [fromPhase |-> calls[c].fromPhase, toPhase |-> calls[c].toPhase]
              ELSE [fromPhase |-> calls[c].fromPhase, toPhase |-> calls[c].toPhase,
                    gateApproval |-> calls[c].gateApproval]]

\* await db.logEvent({...}); return { success: true, ... }
TransitionLog(c) ==
    /\ c \in Started /\ calls[c].pc = "log"
    /\ \/ /\ logEventOk(calls[c].projectId, calls[c].triggeredBy)
          /\ events' = logEvent(events, TransitionEvent(c))
          /\ calls' = [calls EXCEPT ![c].pc = "done", ![c].result = "success"]
       \/ /\ calls' = Fail(c)
          /\ UNCHANGED events
    /\ UNCHANGED <<projects, agents, phases, nextCall>>
    /\ UNCHANGED clientVars

\* mcp__pdl__log_event: db.logEvent(args); a rejected INSERT throws and
\* leaves the table as it was.  call is 0: no transition request wrote it
LogEvent(projectId, brief) ==
    /\ Cardinality({i \in DOMAIN events : events[i].call = 0}) < MaxLogs
    /\ logEventOk(projectId, NULL)
    /\ events' = logEvent(events,
                    [call |-> 0, project_id |-> projectId, type |-> "note",
                     agent_id |-> NULL, brief |-> brief, data |-> [note |-> TRUE]])
    /\ UNCHANGED <<projects, agents, phases, calls, nextCall>>
    /\ UNCHANGED clientVars

ServerNext ==
    \/ CreateProject(ServerProjects)
    \/ \E projectId \in ServerProjects, brief \in LogBriefs : LogEvent(projectId, brief)
    \/ RegisterAgent
    \/ \E projectId \in ServerProjects, name \in PhaseNames, status \in {NULL, "active"} :
          CreatePhase(projectId, name, status)
    \/ \E projectId \in ServerProjects, fromPhase \in PhaseNames, toPhase \in PhaseNames,
          gateApproval \in GateApprovals, triggeredBy \in AgentIds :
          TransitionStart(projectId, fromPhase, toPhase, gateApproval, triggeredBy)
    \/ \E c \in CallIds : TransitionOld(c)
    \/ \E c \in CallIds : TransitionNew(c)
    \/ \E c \in CallIds : TransitionLog(c)

\* ------------------------------------------------------------------------
\* PDLFramework: values
\* ------------------------------------------------------------------------
\* the ids generateEventId may return: `evt_${Date.now()}_${Math.random()...}`
EventIds == {"evt_1", "evt_2"}

\* a JavaScript undefined / a JSON null where an object is expected
Undefined == [undefined |-> TRUE]

HasField(v, f) == f \in DOMAIN v

\* readyState of a WebSocket
CONNECTING == "CONNECTING"

OPEN == "OPEN"

CLOSED == "CLOSED"

\* an options object with none of the fields the code reads
NoOptions == [none |-> TRUE]

\* options.f || default
Opt(options, f, default) == IF HasField(options, f) THEN options[f] ELSE default

\* a url new WebSocket refuses with an exception (a ws: url on a page loaded
\* over https, a url that is no url)
BlockedUrl == "ws://blocked"

\* constructor options of the model: none, a server url, a url the browser
\* refuses, or offline: false without a url
Options == {NoOptions, [wsUrl |-> "ws://pdl"], [wsUrl |-> BlockedUrl], [offline |-> FALSE]}

\* initWebSocket: the values this.ws can have after it.  new WebSocket(url)
\* gives a socket that is connecting, or throws into the catch block, which
\* leaves this.ws as it was; new WebSocket(null) does one or the other, as
\* the browser has it
initWebSocket(url, socket) ==
    IF url = NULL THEN {socket, CONNECTING}
    ELSE IF url = BlockedUrl THEN {socket}
    ELSE {CONNECTING}

\* the template literal `Phase: ${from} → ${to}`; '>' is the arrow character
PhaseBrief(from, to) == "Phase: " \o from \o " > " \o to

\* transitionPhase(fromPhase, toPhase): the emit call it makes
transitionPhase(fromPhase, toPhase) ==
    [type |-> "phase_transition",
     data |-> [from |-> fromPhase, to |-> toPhase, reason |-> ""],
     options |-> [brief |-> PhaseBrief(fromPhase, toPhase), references |-> <<>>]]

\* the emit calls of the model
EmitCalls ==
    {transitionPhase("discovery", "planning"),
     [type |-> "gate_review", data |-> [gate |-> "G1", status |-> "passed"],
      options |-> NoOptions],
     [type |-> "development_note",
      data |-> [text |-> "hooks reviewed, sort order fixed, tests are green"],
      options |-> [agent |-> "dev"]]}

\* the text of the messages that arrive on the socket: not JSON, the JSON
\* null, or an event another session emitted
Messages ==
    {[kind |-> "garbage"],
     [kind |-> "null"],
     [kind |-> "event",
      event |-> [id |-> "evt_r", type |-> "phase_transition", phase |-> "discovery",
                 data |-> [from |-> "discovery", to |-> "planning", reason |-> ""],
                 brief |-> "Planning starts", references |-> <<>>,
                 agent |-> "peer"]]}

\* the event types hooks are registered for after construction
HookTypes == {"phase_transition", "gate_review"}

\* the functions given to registerHook: one that returns, one that throws,
\* one that returns a promise that rejects, and one that calls
\* emit('development_note', ...) for an event of another type; with
\* options.async
UserHooks ==
    {[fn |-> "ok", async |-> FALSE],
     [fn |-> "emit", async |-> FALSE],
     [fn |-> "throw", async |-> FALSE],
     [fn |-> "throw", async |-> TRUE],
     [fn |-> "reject", async |-> TRUE]}

\* the options given to registerHook with a function of UserHooks
HookOptions(hook, priority) ==
    IF hook.async
    THEN IF priority = 0 THEN [async |-> TRUE] ELSE [async |-> TRUE, priority |-> priority]
    ELSE IF priority = 0 THEN NoOptions ELSE [priority |-> priority]

\* ------------------------------------------------------------------------
\* PDLFramework: history
\* ------------------------------------------------------------------------
\* slice(0, k) in place of slice(-k): the first k elements
SliceFirst(s, k) == IF Len(s) <= k THEN s ELSE SubSeq(s, 1, k)

\* addToHistory without the length check
addToHistoryUnbounded(history, event, cap) == Append(history, event)

\* Array.prototype.slice(-k): the last k elements; slice(-0) is slice(0)
SliceLast(s, k) ==
    IF k = 0 \/ Len(s) <= k THEN s
    ELSE SubSeq(s, Len(s) - k + 1, Len(s))

\* addToHistory stamping the events it keeps with the phase of the new one
addToHistoryRestamping(history, event, cap) ==
    LET all == Append([i \in DOMAIN history |->
                          IF HasField(history[i], "phase") /\ HasField(event, "phase")
                          THEN [history[i] EXCEPT !.phase = event.phase]
                          ELSE history[i]], event)
    IN IF Len(all) > cap THEN SubSeq(all, Len(all) - cap + 1, Len(all)) ELSE all

\* addToHistory: the new value of this.eventHistory
addToHistory(history, event, cap) ==
    IF Len(Append(history, event)) > cap
    THEN SliceLast(Append(history, event), cap)
    ELSE Append(history, event)

\* JSON.stringify of the data of a 'development_note' or a 'system' event
Stringify(data) ==
    IF HasField(data, "text") THEN "{\"text\":\"" \o data.text \o "\"}"
    ELSE "{\"type\":\"" \o data.type \o "\",\"status\":\"" \o data.status \o "\"}"

generateBrief(eventType, data) ==
    CASE eventType = "phase_transition" -> PhaseBrief(data.from, data.to)
      [] eventType = "gate_review" -> "Gate " \o data.gate \o ": " \o data.status
      [] OTHER -> eventType \o ": " \o Substring0(Stringify(data), 50) \o "..."

\* ------------------------------------------------------------------------
\* PDLFramework: hooks
\* ------------------------------------------------------------------------
\* registerHook without the sort: the array stays in push order
PushOrder(list) == list

\* executeHooks reading the hooks of one fixed type, whatever the event's
HooksOfPhaseTransition(hk, eventType) == hk["phase_transition"]

\* the position sort() gives a hook pushed onto a sorted array: the sort is
\* stable, so it stays behind the hooks whose priority is not lower
RECURSIVE InsertByPriority(_, _)
InsertByPriority(list, hook) ==
    IF list = <<>> THEN <<hook>>
    ELSE IF Head(list).priority >= hook.priority
         THEN <<Head(list)>> \o InsertByPriority(Tail(list), hook)
         ELSE <<hook>> \o list

\* Array.prototype.sort((a, b) => b.priority - a.priority)
RECURSIVE SortByPriority(_)
SortByPriority(list) ==
    IF list = <<>> THEN <<>>
    ELSE InsertByPriority(SortByPriority(SubSeq(list, 1, Len(list) - 1)),
                          list[Len(list)])

\* registerHook: the new value of this.hooks; reg numbers the registration
registerHook(hk, reg, eventType, hookFn, options) ==
    [hk EXCEPT ![eventType] =
        SortByPriority(Append(hk[eventType],
            [reg |-> reg, fn |-> hookFn, priority |-> Opt(options, "priority", 0),
             async |-> Opt(options, "async", FALSE)]))]

\* the data of the note a hook emits
FollowUp == [text |-> "follow-up"]

RECURSIVE emit(_, _, _, _)
\* What calling hook.fn(event) does.  b holds the fields of the object as
\* the running call finds them (currentPhase, activeAgents, eventHistory,
\* seq, sent, localStorage, pending), the readyState of this.ws (socket),
\* the ids generateEventId returns next (ids), the calls the dispatch under
\* way has made (invoked) and the calls of all dispatches as they started
\* (log).  The call returns, throws, or returns a promise that rejects.
HookFn(fn, event, b) ==
    CASE fn = "setPhase" ->
            \* this.currentPhase = event.data.to; updatePhaseVisualization
            IF HasField(event, "data") /\ event.data # Undefined
            THEN [b |-> [b EXCEPT !.currentPhase =
                            IF HasField(event.data, "to") THEN event.data.to ELSE NULL],
                  end |-> "returned"]
            ELSE [b |-> b, end |-> "threw"]
      [] fn = "addAgent" ->
            \* this.activeAgents.add(event.data.agent), and then
            \* this.updateAgentVisualization(), which the class does not define
            IF HasField(event, "data") /\ event.data # Undefined
            THEN [b |-> [b EXCEPT !.activeAgents = @ \cup
                            {IF HasField(event.data, "agent") THEN event.data.agent ELSE NULL}],
                  end |-> "threw"]
            ELSE [b |-> b, end |-> "threw"]
      [] fn = "devNote" -> [b |-> b, end |-> "returned"]
      [] fn = "ok" -> [b |-> b, end |-> "returned"]
      [] fn = "emit" ->
            \* if (event.type !== 'development_note') this.emit(...): the
            \* inner emit runs to its end inside the hook
            IF event.type = "development_note" THEN [b |-> b, end |-> "returned"]
            ELSE LET r == emit(b, "development_note", FollowUp, NoOptions)
                 IN [b |-> [r.b EXCEPT !.invoked = b.invoked],
                     end |-> IF r.result \in {"HookError", "SyntaxError"}
                             THEN "threw" ELSE "returned"]
      [] fn = "throw" -> [b |-> b, end |-> "threw"]
      [] fn = "reject" -> [b |-> b, end |-> "rejected"]

\* how one pass of the forEach body ends for the hook: the try block catches
\* a throw; a rejected promise is caught by .catch(console.error) when the
\* hook is async, and is nobody's otherwise
HookOutcome(hook, end) ==
    CASE end = "threw" -> "caught"
      [] end = "rejected" -> IF hook.async THEN "pending" ELSE "unhandled"
      [] OTHER -> "returned"

\* a forEach body without the try block: the throw leaves executeHooks
EscapesUncaught(hook, end) == end = "threw"

\* whether the throw of a hook leaves the forEach body: try { ... } catch
Escapes(hook, end) == FALSE

\* whether the event numbered n is in the history / has gone to the socket
\* or to localStorage
InHistory(b, n) == \E i \in DOMAIN b.eventHistory : b.eventHistory[i].n = n

Forwarded(b, n) ==
    \/ \E i \in DOMAIN b.sent : b.sent[i].n = n
    \/ \E i \in DOMAIN b.localStorage : b.localStorage[i][2].n = n

\* b when hook.fn(event) is entered
Entered(hook, event, b) ==
    [b EXCEPT !.log = Append(@, [n |-> event.n, reg |-> hook.reg,
                                 inHistory |-> InHistory(b, event.n),
                                 forwarded |-> Forwarded(b, event.n)])]

\* the forEach body of executeHooks for one hook
TryHook(hook, event, b) ==
    LET r == HookFn(hook.fn, event, Entered(hook, event, b))
    IN [b |-> [r.b EXCEPT !.invoked = Append(@, <<hook.reg, HookOutcome(hook, r.end)>>)],
        abort |-> Escapes(hook, r.end)]

RECURSIVE ForEachHook(_, _, _, _)
ForEachHook(list, i, event, b) ==
    IF i > Len(list) THEN [b |-> b, abort |-> FALSE]
    ELSE LET t == TryHook(list[i], event, b)
         IN IF t.abort THEN t ELSE ForEachHook(list, i + 1, event, t.b)

\* this.hooks.get(eventType) || []
HooksFor(hk, eventType) == IF eventType \in DOMAIN hk THEN hk[eventType] ELSE <<>>

executeHooks(hk, eventType, event, b) ==
    ForEachHook(HooksFor(hk, eventType), 1, event, b)

\* ------------------------------------------------------------------------
\* PDLFramework: socket and page
\* ------------------------------------------------------------------------
\* sendToServer: the branch taken
SendBranch(offline, socket) ==
    IF ~offline /\ socket # "null" /\ socket = OPEN THEN "send"
    ELSE IF offline THEN "store"
    ELSE "drop"

\* updateVisualization(event): whether it throws.  Without the svg it
\* returns at once; with it, a gate_review event reaches updateGateStatus,
\* whose selector `text:contains("...")` querySelector rejects with a
\* SyntaxError; the other cases throw only when event.data is missing
VisualizationThrows(hasSvg, event) ==
    /\ hasSvg
    /\ HasField(event, "type")
    /\ \/ event.type = "gate_review"
       \/ /\ event.type \in {"phase_transition", "agent_assigned"}
          /\ event.data = Undefined

\* the promises of the async hooks of a dispatch that are still unsettled
NewPending(n, invoked) ==
    {<<n, invoked[i][1]>> : i \in {j \in DOMAIN invoked : invoked[j][2] = "pending"}}

NoLast == [op |-> "none", n |-> 0, bound |-> <<>>, invoked |-> <<>>, branch |-> NULL,
           result |-> NULL, log |-> <<>>]

\* registerDefaultHooks: this.hooks after the constructor
DefaultHooks ==
    registerHook(
      registerHook(
        registerHook(
          [t \in {"phase_transition", "agent_assigned", "development_note",
                  "gate_review"} |-> <<>>],
          1, "phase_transition", "setPhase", NoOptions),
        2, "agent_assigned", "addAgent", NoOptions),
      3, "development_note", "devNote", NoOptions)

ClientInit ==
    /\ \E o \in Options :
        /\ wsUrl = Opt(o, "wsUrl", NULL)
        /\ offlineMode = (Opt(o, "offline", TRUE) # FALSE /\ Opt(o, "wsUrl", NULL) = NULL)
        /\ ws \in IF Opt(o, "offline", TRUE) # FALSE /\ Opt(o, "wsUrl", NULL) = NULL
                  THEN {"null"}
                  ELSE initWebSocket(Opt(o, "wsUrl", NULL), "null")
    /\ timers = 0
    /\ eventHistory = <<>>
    /\ maxEventHistory \in 1..MaxCap
    /\ currentPhase = "discovery"
    /\ activeAgents = {}
    /\ hooks = DefaultHooks
    /\ sent = <<>>
    /\ localStorage = <<>>
    /\ svg \in BOOLEAN
    /\ seq = 0
    /\ regs = 3
    /\ last = NoLast
    /\ pending = {}

\* the client as SpecServer leaves it: constructed with no options
ClientIdle ==
    /\ ClientInit
    /\ offlineMode
    /\ maxEventHistory = 1
    /\ svg = FALSE

\* registerHook(eventType, hookFn, options), called by the page
RegisterHook(eventType, hook, priority) ==
    /\ regs < 3 + MaxHooks
    /\ hooks' = registerHook(hooks, regs + 1, eventType, hook.fn,
                             HookOptions(hook, priority))
    /\ regs' = regs + 1
    /\ UNCHANGED serverVars
    /\ UNCHANGED <<wsUrl, offlineMode, ws, timers, eventHistory, maxEventHistory,
                   currentPhase, activeAgents, sent, localStorage, svg, seq, last,
                   pending>>

\* localStorage.setItem(`pdl_event_${event.id}`, ...): the item is replaced if
\* the key is there, added at the end otherwise
SetItem(store, key, value) ==
    IF \E i \in DOMAIN store : store[i][1] = key
    THEN [i \in DOMAIN store |-> IF store[i][1] = key THEN <<key, value>> ELSE store[i]]
    ELSE Append(store, <<key, value>>)

\* the object as an operation called by the page or the socket finds it
Now(socket, ids) ==
    [currentPhase |-> currentPhase, activeAgents |-> activeAgents,
     eventHistory |-> eventHistory, seq |-> seq, sent |-> sent,
     localStorage |-> localStorage, pending |-> pending, socket |-> socket,
     ids |-> ids, invoked |-> <<>>, log |-> <<>>]

\* the values generateEventId returns to an operation that calls it k times
IdSeqs(k) == [1..k -> EventIds]

\* the event object emit builds; n is its arrival number in the history
NewEvent(b, eventType, data, options) ==
    [n |-> b.seq + 1, id |-> Head(b.ids), type |-> eventType, phase |-> b.currentPhase,
     data |-> data,
     brief |-> Opt(options, "brief", generateBrief(eventType, data)),
     references |-> Opt(options, "references", <<>>),
     agent |-> Opt(options, "agent", "system")]

\* emit(eventType, data, options): addToHistory, executeHooks, sendToServer,
\* updateVisualization, return event.id.  It gives the object as the call
\* leaves it, what the call returns or throws, and how its dispatch went
emit(b, eventType, data, options) ==
    LET event == NewEvent(b, eventType, data, options)
        d == executeHooks(hooks, eventType, event,
                [b EXCEPT !.eventHistory = addToHistory(@, event, maxEventHistory),
                          !.seq = @ + 1, !.ids = Tail(@), !.invoked = <<>>])
        branch == SendBranch(offlineMode, b.socket)
    IN [b |-> [d.b EXCEPT
                 !.pending = @ \cup NewPending(event.n, d.b.invoked),
                 !.sent = IF ~d.abort /\ branch = "send" THEN Append(@, event) ELSE @,
                 !.localStorage = IF ~d.abort /\ branch = "store"
                                  THEN SetItem(@, event.id, event) ELSE @],
        n |-> event.n,
        bound |-> HooksFor(hooks, eventType),
        invoked |-> d.b.invoked,
        branch |-> IF d.abort THEN NULL ELSE branch,
        result |-> IF d.abort THEN "HookError"
                   ELSE IF VisualizationThrows(svg, event) THEN "SyntaxError"
                   ELSE event.id]

\* the emit calls the hooks of an event of this type make
Reemits(eventType) ==
    Cardinality({i \in DOMAIN HooksFor(hooks, eventType) :
                    HooksFor(hooks, eventType)[i].fn = "emit"})

\* an emit call by the page or by onConnectionOpen: the fields emit leaves.
\* socket is the readyState of this.ws when emit runs
EmitEvent(eventType, data, options, socket, ids) ==
    LET r == emit(Now(socket, ids), eventType, data, options)
    IN /\ eventHistory' = r.b.eventHistory
       /\ seq' = r.b.seq
       /\ currentPhase' = r.b.currentPhase
       /\ activeAgents' = r.b.activeAgents
       /\ pending' = r.b.pending
       /\ sent' = r.b.sent
       /\ localStorage' = r.b.localStorage
       /\ last' = [op |-> "emit", n |-> r.n, bound |-> r.bound, invoked |-> r.invoked,
                   branch |-> r.branch, result |-> r.result, log |-> r.b.log]

\* emit(eventType, data, options), called by the page; ids is what
\* generateEventId returns
Emit(call, ids) ==
    /\ seq + 1 + Reemits(call.type) <= MaxEvents
    /\ EmitEvent(call.type, call.data, call.options, ws, ids)
    /\ UNCHANGED serverVars
    /\ UNCHANGED <<wsUrl, offlineMode, ws, timers, maxEventHistory, hooks, svg, regs>>

\* ws.onopen: onConnectionOpen emits the 'system' event
OnConnectionOpen(ids) ==
    /\ ws = CONNECTING
    /\ seq + 1 + Reemits("system") <= MaxEvents
    /\ ws' = OPEN
    /\ EmitEvent("system", [type |-> "connection", status |-> "connected"],
                 NoOptions, OPEN, ids)
    /\ UNCHANGED serverVars
    /\ UNCHANGED <<wsUrl, offlineMode, timers, maxEventHistory, hooks, svg, regs>>

\* ws.onclose: onConnectionClose arms the reconnect timer
OnConnectionClose ==
    /\ ws \in {CONNECTING, OPEN}
    /\ ws' = CLOSED
    /\ timers' = timers + 1
    /\ UNCHANGED serverVars
    /\ UNCHANGED <<wsUrl, offlineMode, eventHistory, maxEventHistory, currentPhase,
                   activeAgents, hooks, sent, localStorage, svg, seq, regs, last,
                   pending>>

\* ws.onerror: onConnectionError writes to the console
OnConnectionError ==
    /\ ws \in {CONNECTING, OPEN}
    /\ UNCHANGED serverVars
    /\ UNCHANGED clientVars

\* a timer set with setInterval: it fires again after it has fired
ReconnectTimerRepeating ==
    /\ timers > 0
    /\ ws' \in initWebSocket(wsUrl, ws) \ {ws}
    /\ UNCHANGED serverVars
    /\ UNCHANGED <<wsUrl, offlineMode, timers, eventHistory, maxEventHistory,
                   currentPhase, activeAgents, hooks, sent, localStorage, svg, seq,
                   regs, last, pending>>

\* the reconnect timer fires: initWebSocket.  The timer is armed by a socket
\* that new WebSocket(this.wsUrl) gave before, so the constructor gives one
\* again
ReconnectTimer ==
    /\ timers > 0
    /\ timers' = timers - 1
    /\ ws' \in initWebSocket(wsUrl, ws) \ {ws}
    /\ UNCHANGED serverVars
    /\ UNCHANGED <<wsUrl, offlineMode, eventHistory, maxEventHistory, currentPhase,
                   activeAgents, hooks, sent, localStorage, svg, seq, regs, last,
                   pending>>

\* handleIncomingEvent making the brief anew, as emit does for a local event
ParsedRebriefed(msg) ==
    IF msg.kind = "null" THEN [n |-> seq + 1, null |-> TRUE]
    ELSE [n |-> seq + 1, id |-> msg.event.id, type |-> msg.event.type,
          phase |-> msg.event.phase, data |-> msg.event.data,
          brief |-> generateBrief(msg.event.type, msg.event.data),
          references |-> msg.event.references, agent |-> msg.event.agent]

\* what JSON.parse(event.data) gives handleIncomingEvent; n numbers the
\* arrival in the history
Parsed(msg) ==
    IF msg.kind = "null" THEN [n |-> seq + 1, null |-> TRUE]
    ELSE [n |-> seq + 1, id |-> msg.event.id, type |-> msg.event.type,
          phase |-> msg.event.phase, data |-> msg.event.data,
          brief |-> msg.event.brief, references |-> msg.event.references,
          agent |-> msg.event.agent]

\* handleIncomingEvent with a sendToServer(data) call after the dispatch
handleIncomingEventForwarding(b, data) ==
    LET d == executeHooks(hooks, data.type, data,
                [b EXCEPT !.eventHistory = addToHistory(@, data, maxEventHistory),
                          !.seq = @ + 1])
        branch == SendBranch(offlineMode, b.socket)
    IN [d EXCEPT !.b.sent = IF branch = "send" THEN Append(@, data) ELSE @,
                 !.b.localStorage = IF branch = "store"
                                    THEN SetItem(@, data.id, data) ELSE @]

\* handleIncomingEvent(data) for data with a type: addToHistory and
\* executeHooks; it gives the object as the dispatch leaves it
handleIncomingEvent(b, data) ==
    executeHooks(hooks, data.type, data,
        [b EXCEPT !.eventHistory = addToHistory(@, data, maxEventHistory),
                  !.seq = @ + 1])

\* ws.onmessage: onMessage parses the text and calls handleIncomingEvent:
\* addToHistory, executeHooks, updateVisualization.  Text that is not JSON
\* throws in JSON.parse; null goes into the history and then throws at
\* data.type
OnMessage(msg, ids) ==
    /\ ws = OPEN
    /\ seq + 1 + (IF msg.kind = "event" THEN Reemits(msg.event.type) ELSE 0) <= MaxEvents
    /\ IF msg.kind = "garbage"
       THEN /\ last' = [NoLast EXCEPT !.op = "message", !.result = "SyntaxError"]
            /\ UNCHANGED <<eventHistory, seq, currentPhase, activeAgents, pending,
                           sent, localStorage>>
       ELSE IF msg.kind = "null"
       THEN /\ eventHistory' = addToHistory(eventHistory, Parsed(msg), maxEventHistory)
            /\ seq' = seq + 1
            /\ last' = [NoLast EXCEPT !.op = "message", !.n = seq + 1,
                                      !.result = "TypeError"]
            /\ UNCHANGED <<currentPhase, activeAgents, pending, sent, localStorage>>
       ELSE LET d == handleIncomingEvent(Now(ws, ids), Parsed(msg))
            IN /\ eventHistory' = d.b.eventHistory
               /\ seq' = d.b.seq
               /\ currentPhase' = d.b.currentPhase
               /\ activeAgents' = d.b.activeAgents
               /\ pending' = d.b.pending \cup NewPending(seq + 1, d.b.invoked)
               /\ sent' = d.b.sent
               /\ localStorage' = d.b.localStorage
               /\ last' = [op |-> "message", n |-> seq + 1,
                           bound |-> HooksFor(hooks, Parsed(msg).type),
                           invoked |-> d.b.invoked,
                           branch |-> NULL,
                           result |-> IF d.abort THEN "HookError"
                                      ELSE IF VisualizationThrows(svg, Parsed(msg))
                                           THEN "SyntaxError"
                                      ELSE "returned",
                           log |-> d.b.log]
    /\ UNCHANGED serverVars
    /\ UNCHANGED <<wsUrl, offlineMode, ws, timers, maxEventHistory, hooks, svg, regs>>

\* a promise returned by an async hook rejects: .catch(console.error)
SettleAsync(p) ==
    /\ p \in pending
    /\ pending' = pending \ {p}
    /\ UNCHANGED serverVars
    /\ UNCHANGED <<wsUrl, offlineMode, ws, timers, eventHistory, maxEventHistory,
                   currentPhase, activeAgents, hooks, sent, localStorage, svg, seq,
                   regs, last>>

\* the filters given to getEventHistory: none, one field, two, all three,
\* and an empty string for a field
Filters ==
    {NoOptions,
     [phase |-> "discovery"],
     [type |-> "phase_transition"],
     [agent |-> "system"],
     [agent |-> ""],
     [phase |-> "planning", type |-> "gate_review"],
     [phase |-> "discovery", agent |-> "peer", type |-> "phase_transition"]}

\* if (filter.f): the field is there and is no empty string
Truthy(filter, f) == HasField(filter, f) /\ filter[f] # ""

\* Array.prototype.filter(e => e[f] === v)
RECURSIVE FilterField(_, _, _)
FilterField(list, f, v) ==
    IF list = <<>> THEN <<>>
    ELSE (IF HasField(Head(list), f) /\ Head(list)[f] = v THEN <<Head(list)>> ELSE <<>>)
         \o FilterField(Tail(list), f, v)

\* if (filter.f) filtered = filtered.filter(e => e.f === filter.f): reading
\* e.f of a null element throws a TypeError
FilterIf(r, filter, f) ==
    IF r.threw \/ ~Truthy(filter, f) THEN r
    ELSE IF \E i \in DOMAIN r.events : HasField(r.events[i], "null")
         THEN [threw |-> TRUE, events |-> <<>>]
         ELSE [threw |-> FALSE, events |-> FilterField(r.events, f, filter[f])]

\* getEventHistory(filter): what it returns, or that it throws
getEventHistory(history, filter) ==
    FilterIf(FilterIf(FilterIf([threw |-> FALSE, events |-> history],
                               filter, "phase"), filter, "agent"), filter, "type")

\* getEventHistory(filter), called by the page
GetEventHistory(filter) ==
    /\ last' = [op |-> "query", n |-> 0, bound |-> <<>>, invoked |-> <<>>,
                branch |-> NULL, result |-> getEventHistory(eventHistory, filter),
                log |-> <<>>, filter |-> filter]
    /\ UNCHANGED serverVars
    /\ UNCHANGED <<wsUrl, offlineMode, ws, timers, eventHistory, maxEventHistory,
                   currentPhase, activeAgents, hooks, sent, localStorage, svg, seq,
                   regs, pending>>

\* a page that emits, receives and queries, with the hooks of the constructor
QueryNext ==
    \/ \E call \in EmitCalls : \E ids \in IdSeqs(1) : Emit(call, ids)
    \/ \E ids \in IdSeqs(1) : OnConnectionOpen(ids)
    \/ \E msg \in Messages : \E ids \in IdSeqs(0) : OnMessage(msg, ids)
    \/ \E filter \in Filters : GetEventHistory(filter)

ClientNext ==
    \/ \E eventType \in HookTypes, hook \in UserHooks, priority \in 0..MaxPriority :
            RegisterHook(eventType, hook, priority)
    \/ \E call \in EmitCalls : \E ids \in IdSeqs(1 + Reemits(call.type)) : Emit(call, ids)
    \/ \E ids \in IdSeqs(1 + Reemits("system")) : OnConnectionOpen(ids)
    \/ OnConnectionClose
    \/ OnConnectionError
    \/ ReconnectTimer
    \/ \E msg \in Messages : \E ids \in IdSeqs(MaxHooks) : OnMessage(msg, ids)
    \/ \E p \in pending : SettleAsync(p)

Init == ServerInit /\ ClientInit

\* the server with a page that only sits there
InitServer == ServerInit /\ ClientIdle

SpecClient == Init /\ [][ClientNext]_vars

SpecQuery == Init /\ [][QueryNext]_vars

\* the number of events getCurrentState gives: slice(-10)
RecentEvents == 10

\* getCurrentState with the whole history as recentEvents
getCurrentStateWholeHistory ==
    [phase |-> currentPhase, activeAgents |-> activeAgents,
     recentEvents |-> eventHistory,
     connected |-> IF ws = "null" THEN "null" ELSE IF ws = OPEN THEN "true" ELSE "false"]

\* getCurrentState(): connected is this.ws && this.ws.readyState === OPEN
getCurrentState ==
    [phase |-> currentPhase, activeAgents |-> activeAgents,
     recentEvents |-> SliceLast(eventHistory, RecentEvents),
     connected |-> IF ws = "null" THEN "null" ELSE IF ws = OPEN THEN "true" ELSE "false"]

\* getCurrentState(), called by the page
GetCurrentState ==
    /\ last' = [op |-> "snapshot", state |-> getCurrentState]
    /\ UNCHANGED serverVars
    /\ UNCHANGED <<wsUrl, offlineMode, ws, timers, eventHistory, maxEventHistory,
                   currentPhase, activeAgents, hooks, sent, localStorage, svg, seq,
                   regs, pending>>

\* the object of a page constructed with no options, before any call
Constructed ==
    [currentPhase |-> "discovery", activeAgents |-> {}, eventHistory |-> <<>>,
     seq |-> 0, sent |-> <<>>, localStorage |-> <<>>, pending |-> {},
     socket |-> "null", ids |-> <<>>, invoked |-> <<>>, log |-> <<>>]

\* what the k-th of k emit calls of one kind gives, on a page constructed
\* with no options; generateEventId gives evt_1 and evt_2 in turn
RECURSIVE AfterEmits(_, _)
AfterEmits(k, call) ==
    IF k = 0 THEN [b |-> Constructed]
    ELSE LET before == AfterEmits(k - 1, call)
         IN emit([before.b EXCEPT !.ids = <<IF k % 2 = 1 THEN "evt_1" ELSE "evt_2">>,
                                  !.log = <<>>],
                 call.type, call.data, call.options)

\* a page in offline mode, with room for MaxHistory events, after up to
\* MaxHistory emit calls
InitSnapshot ==
    /\ ServerInit
    /\ wsUrl = NULL
    /\ offlineMode = TRUE
    /\ ws = "null"
    /\ timers = 0
    /\ maxEventHistory = MaxHistory
    /\ hooks = DefaultHooks
    /\ svg = FALSE
    /\ regs = 3
    /\ \E k \in 0..MaxHistory, call \in EmitCalls :
          LET r == AfterEmits(k, call)
          IN /\ eventHistory = r.b.eventHistory
             /\ seq = r.b.seq
             /\ currentPhase = r.b.currentPhase
             /\ activeAgents = r.b.activeAgents
             /\ sent = r.b.sent
             /\ localStorage = r.b.localStorage
             /\ pending = r.b.pending
             /\ last = IF k = 0 THEN NoLast
                       ELSE [op |-> "emit", n |-> r.n, bound |-> r.bound,
                             invoked |-> r.invoked, branch |-> r.branch,
                             result |-> r.result, log |-> r.b.log]

\* a page that emits and takes snapshots
SnapshotNext ==
    \/ \E call \in EmitCalls : \E ids \in IdSeqs(1) : Emit(call, ids)
    \/ GetCurrentState

SpecSnapshot == InitSnapshot /\ [][SnapshotNext]_vars

SpecServer == InitServer /\ [][ServerNext]_vars

\* the row create_phase inserts
CreatedRow(status) ==
    [status |-> StatusOrPending(status), start_date |-> StartDateParam,
     end_date |-> NoDate, rows |-> 1]

\* two projects whose phases were created before: each phase is missing,
\* pending or active
InitProjects ==
    /\ projects = ProjectIds
    /\ agents = AgentIds
    /\ phases \in [ProjectIds \X PhaseNames ->
                     {NoPhase, CreatedRow(NULL), CreatedRow("active")}]
    /\ events = <<>>
    /\ calls = <<>>
    /\ nextCall = 1
    /\ ClientIdle

\* transition_phase calls on the two projects, gateApproval given or not
ProjectsNext ==
    \/ \E projectId \in ProjectIds, fromPhase \in PhaseNames, toPhase \in PhaseNames,
          gateApproval \in GateApprovals \cup {NULL}, triggeredBy \in AgentIds :
          TransitionStart(projectId, fromPhase, toPhase, gateApproval, triggeredBy)
    \/ \E c \in CallIds : TransitionOld(c)
    \/ \E c \in CallIds : TransitionNew(c)
    \/ \E c \in CallIds : TransitionLog(c)

SpecProjects == InitProjects /\ [][ProjectsNext]_vars

\* two projects, each with discovery active and planning pending
InitEvents ==
    /\ projects = ProjectIds
    /\ agents = AgentIds
    /\ phases = [k \in ProjectIds \X PhaseNames |->
                    IF k[2] = "discovery" THEN CreatedRow("active") ELSE CreatedRow(NULL)]
    /\ events = <<>>
    /\ calls = <<>>
    /\ nextCall = 1
    /\ ClientIdle

\* mcp__pdl__get_events: db.getEvents(args.projectId, args); last holds the
\* request, the rows returned (by their place in table events) and the
\* number of rows the table had
GetEvents(projectId, filter) ==
    /\ \E rows \in getEvents(events, projectId, filter) :
          last' = [op |-> "get_events", projectId |-> projectId, filter |-> filter,
                   rows |-> rows, count |-> Len(events)]
    /\ UNCHANGED serverVars
    /\ UNCHANGED <<wsUrl, offlineMode, ws, timers, eventHistory, maxEventHistory,
                   currentPhase, activeAgents, hooks, sent, localStorage, svg, seq,
                   regs, pending>>

\* events logged by log_event and by transitions on the two projects, and
\* get_events
EventsNext ==
    \/ \E projectId \in ProjectIds, brief \in LogBriefs : LogEvent(projectId, brief)
    \/ \E projectId \in ProjectIds :
          TransitionStart(projectId, "discovery", "planning", NULL, "a1")
    \/ \E c \in CallIds : TransitionOld(c)
    \/ \E c \in CallIds : TransitionNew(c)
    \/ \E c \in CallIds : TransitionLog(c)
    \/ \E projectId \in ProjectIds, filter \in EventFilters : GetEvents(projectId, filter)

SpecEvents == InitEvents /\ [][EventsNext]_vars

\* ------------------------------------------------------------------------
\* Properties of the phase lifecycle
\* ------------------------------------------------------------------------
\* the request c has a row in table events
Logged(c) == \E i \in DOMAIN events : events[i].call = c

\* C1: every project has at most one phase whose status is 'active'.
C1_AtMostOneActive ==
    \A p \in ProjectIds : Cardinality(ActivePhases(phases, p)) <= 1

\* C2: a transition request whose fromPhase was not the active phase changes no
\* phase row, logs no event, and does not end in success.
C2_FromNotActiveRejected ==
    \A c \in Started :
        ~calls[c].fromWasActive =>
            /\ calls[c].changes = 0
            /\ ~Logged(c)
            /\ calls[c].result # "success"

\* C3: a transition request from the active phase to a phase that does not
\* exist changes no phase row (the fromPhase stays active), logs no event, and
\* does not end in success.
C3_MissingTargetRejected ==
    \A c \in Started :
        (calls[c].fromWasActive /\ ~calls[c].toExisted) =>
            /\ calls[c].changes = 0
            /\ ~Logged(c)
            /\ calls[c].result # "success"

\* C4: a transition request that arrives while another one for the same
\* project is in flight writes nothing, logs no event, and does not end in
\* success.
C4_OverlapRejected ==
    \A c \in Started :
        calls[c].overlapped =>
            /\ calls[c].changes = 0
            /\ ~Logged(c)
            /\ calls[c].result # "success"

\* C5: when a transition from the active phase F to another existing phase T
\* returns success, F is completed with its end date stamped, T is active with
\* its start date stamped, and the call has added exactly one phase_transition
\* row, naming F and T.
C5_SuccessfulTransition ==
    [][\A c \in Started :
          (/\ calls[c].pc = "log" /\ calls'[c].pc = "done"
           /\ calls[c].fromWasActive /\ calls[c].toExisted
           /\ calls[c].fromPhase # calls[c].toPhase) =>
              /\ phases'[<<calls[c].projectId, calls[c].fromPhase>>] \in
                    {[status |-> "completed", start_date |-> d, end_date |-> CURRENT_TIMESTAMP,
                      rows |-> 1] :
                        d \in {StartDateParam, CURRENT_TIMESTAMP}}
              /\ phases'[<<calls[c].projectId, calls[c].toPhase>>].status = "active"
              /\ phases'[<<calls[c].projectId, calls[c].toPhase>>].start_date = CURRENT_TIMESTAMP
              /\ events' = Append(events, TransitionEvent(c))]_vars

\* C6: a phase_transition row is in table events only for a request that passed
\* validation (its fromPhase was active, its toPhase existed) and whose two
\* status writes have both succeeded.
C6_EventOnlyAfterValidWrites ==
    \A i \in {j \in DOMAIN events : events[j].type = "phase_transition"} :
        /\ calls[events[i].call].fromWasActive
        /\ calls[events[i].call].toExisted
        /\ calls[events[i].call].pc = "done"

\* ------------------------------------------------------------------------
\* Properties of the event bus
\* ------------------------------------------------------------------------
Min(a, b) == IF a < b THEN a ELSE b

\* a dispatch in which a hook of the wanted kind (async or not) failed: it
\* threw, or the promise it returned rejected
Failed(d, isAsync) ==
    \E i \in DOMAIN d.invoked, j \in DOMAIN d.bound :
        /\ d.bound[j].reg = d.invoked[i][1]
        /\ d.bound[j].async = isAsync
        /\ d.invoked[i][2] \in {"caught", "pending"}

\* every hook bound to the type was called, once, in the order of the list
AllInvoked(d) ==
    /\ Len(d.invoked) = Len(d.bound)
    /\ \A i \in DOMAIN d.bound : d.invoked[i][1] = d.bound[i].reg

\* C7: after any sequence of emit calls and incoming peer events the
\* history is never longer than the cap, maxEventHistory.
C7_HistoryBounded == Len(eventHistory) <= maxEventHistory

\* an incoming peer event arrived at a full history and the cap still holds
C7_Witness ==
    /\ seq > maxEventHistory
    /\ last.op = "message"
    /\ last.n = seq
    /\ Len(eventHistory) = maxEventHistory

\* C8: eviction is strict FIFO: after k appends with cap N the history is
\* exactly the last min(k, N) appended events in arrival order, whatever
\* their types (with k = 1200, N = 1000: 1000 entries, the first is the
\* 201st appended).
C8_HistoryFifo ==
    /\ Len(eventHistory) = Min(seq, maxEventHistory)
    /\ \A i \in DOMAIN eventHistory :
          eventHistory[i].n = seq - Min(seq, maxEventHistory) + i

\* more appends than the cap, the cap above one: the history starts at the
\* (k - N + 1)th appended event and holds events of different types
C8_Witness ==
    /\ maxEventHistory = MaxCap
    /\ seq = MaxEvents
    /\ Len(eventHistory) = MaxCap
    /\ eventHistory[1].n = MaxEvents - MaxCap + 1
    /\ \E i, j \in DOMAIN eventHistory :
          /\ HasField(eventHistory[i], "type") /\ HasField(eventHistory[j], "type")
          /\ eventHistory[i].type # eventHistory[j].type

\* C9: when a hook that is not async throws during the dispatch of an
\* event, every hook bound to the event's type is still called, the later
\* ones included, and the throw does not leave emit.
C9_SyncThrowIsolated ==
    (last.op \in {"emit", "message"} /\ Failed(last, FALSE)) =>
        /\ AllInvoked(last)
        /\ last.result # "HookError"

\* an emit whose first hook, not async, threw, and whose second hook ran
C9_Witness ==
    /\ last.op = "emit"
    /\ Len(last.bound) >= 2
    /\ ~last.bound[1].async
    /\ Len(last.invoked) >= 2
    /\ last.invoked[1] = <<last.bound[1].reg, "caught">>
    /\ last.invoked[2] = <<last.bound[2].reg, "returned">>
    /\ last.result \in EventIds

\* C10: when an async hook rejects or throws during an emit, the failure
\* does not reach the caller, the remaining hooks are still called, and
\* emit returns the id of the event.
C10_AsyncFailureIsolated ==
    (last.op = "emit" /\ Failed(last, TRUE)) =>
        /\ AllInvoked(last)
        /\ last.result = eventHistory[Len(eventHistory)].id

\* the hook of a dispatch that was registered as number reg
HookOfReg(d, reg) == CHOOSE h \in {d.bound[j] : j \in DOMAIN d.bound} : h.reg = reg

\* h comes before g in dispatch order: higher priority first, and at equal
\* priority the one registered first
Before(h, g) == h.priority > g.priority \/ (h.priority = g.priority /\ h.reg < g.reg)

\* the event the last emit or message put through the bus, when there is one
LastIsEvent ==
    /\ last.op \in {"emit", "message"}
    /\ last.n = seq
    /\ seq > 0
    /\ HasField(eventHistory[Len(eventHistory)], "type")

LastType == eventHistory[Len(eventHistory)].type

\* C11: for every event type, after any sequence of registerHook calls,
\* hooks are called in descending priority order, and hooks of equal
\* priority in the order in which they were registered.
C11_PriorityOrder ==
    /\ \A t \in DOMAIN hooks : \A i, j \in DOMAIN hooks[t] :
          i < j => Before(hooks[t][i], hooks[t][j])
    /\ last.op \in {"emit", "message"} =>
          \A i, j \in DOMAIN last.invoked :
              i < j => Before(HookOfReg(last, last.invoked[i][1]),
                              HookOfReg(last, last.invoked[j][1]))

\* an emit that called a hook registered later, with the higher priority,
\* before the default hook
C11_Witness ==
    /\ last.op = "emit"
    /\ Len(last.invoked) = 2
    /\ last.invoked[1][1] > last.invoked[2][1]
    /\ HookOfReg(last, last.invoked[1][1]).priority
         > HookOfReg(last, last.invoked[2][1]).priority

EmittedUnconnected ==
    /\ seq' = seq + 1
    /\ last'.op = "emit"
    /\ last'.n = seq'
    /\ last'.branch # "send"

\* this step is the handshake of the socket, and the emit call before it
\* found no open socket
HandshakeAfterUnsent ==
    /\ ws = CONNECTING /\ ws' = OPEN
    /\ last.op = "emit"
    /\ last.branch # "send"

\* C13: an event emitted while there is no connection is put in the
\* offline buffer under its id, the buffer keeps emission order, and when
\* the connection is made the buffered events are sent, in order, before
\* any event emitted later.
C13_BufferedThenReplayed ==
    [][/\ EmittedUnconnected =>
            \E i \in DOMAIN localStorage' :
                /\ localStorage'[i][1] = localStorage'[i][2].id
                /\ localStorage'[i][2].n = last'.n
       /\ \A i, j \in DOMAIN localStorage' :
            i < j => localStorage'[i][2].n < localStorage'[j][2].n
       /\ HandshakeAfterUnsent =>
            \E j \in DOMAIN sent' :
                /\ sent'[j].n = last.n
                /\ \A k \in DOMAIN sent' : sent'[k].n > last.n => j < k]_vars

\* C14: with a remote endpoint configured and the socket not open, every
\* emitted event is sent or written to the offline buffer, never dropped.
C14_NeverDropped ==
    (wsUrl # NULL /\ last.op = "emit" /\ last.branch # NULL) =>
        last.branch \in {"send", "store"}

\* C15: with no remote endpoint configured at construction, whatever the
\* other options, the component is offline for good: no connection is
\* attempted and no event is sent on a socket.
C15_OfflineForever ==
    wsUrl = NULL =>
        /\ offlineMode
        /\ ws = "null"
        /\ timers = 0
        /\ sent = <<>>

\* C16: with an endpoint configured, a lost connection, a connection
\* attempt that fails to start included, is followed by a new attempt
\* after the reconnect delay: the component is never left without a
\* socket that is connecting or open and without a reconnect timer.
C16_NeverStuckDisconnected ==
    wsUrl # NULL => (ws \in {CONNECTING, OPEN} \/ timers > 0)

\* this step is the handshake of the socket: ws.onopen
Handshake == ws = CONNECTING /\ ws' = OPEN

\* C17: each handshake makes the bus emit exactly one system event that
\* announces the connection, and the event goes out after the outgoing
\* events buffered before it have been flushed.
C17_ConnectedEventAfterFlush ==
    [][Handshake =>
        /\ seq' = seq + 1
        /\ eventHistory'[Len(eventHistory')].type = "system"
        /\ eventHistory'[Len(eventHistory')].data.status = "connected"
        /\ sent' # <<>>
        /\ sent'[Len(sent')] = eventHistory'[Len(eventHistory')]
        /\ \A k \in 1..(Len(sent') - 1) : sent'[k].type # "system" \/ k <= Len(sent)
        /\ (last.op = "emit" /\ last.branch # "send") =>
              \E j \in 1..(Len(sent') - 1) : sent'[j].n = last.n]_vars

\* C18: an incoming message that is not JSON, or is JSON but no event
\* object (null), is discarded: history, currentPhase and the rest of the
\* state hooks see are unchanged, and no exception leaves onMessage.
C18_MalformedDiscarded ==
    [][\A msg \in Messages, ids \in IdSeqs(MaxHooks) :
          (msg.kind # "event" /\ OnMessage(msg, ids)) =>
              /\ UNCHANGED <<eventHistory, currentPhase, activeAgents, hooks>>
              /\ last'.result \notin {"SyntaxError", "TypeError"}]_vars

\* C19: every event emit creates has a brief of at most 60 characters,
\* whether the caller gave the brief or generateBrief made it, for every
\* event type, the default rule included.
C19_BriefAtMost60 ==
    (last.op = "emit" /\ last.n = seq) =>
        Len(eventHistory[Len(eventHistory)].brief) <= BriefMax

\* ------------------------------------------------------------------------
\* Properties of the event log
\* ------------------------------------------------------------------------
\* C20: every row logEvent writes to table events, called by log_event or
\* by transition_phase, has a brief of at most 60 characters: a longer
\* brief is cut to its first 60 characters, a brief of 60 or fewer is
\* stored as it is.
C20_StoredBriefAtMost60 ==
    [][/\ \A i \in DOMAIN events' : Len(events'[i].brief) <= BriefMax
       /\ \A projectId \in ServerProjects, brief \in LogBriefs :
            LogEvent(projectId, brief) =>
                events'[Len(events')].brief =
                    IF Len(brief) > BriefMax THEN SubSeq(brief, 1, BriefMax) ELSE brief
       /\ \A c \in Started :
            (calls[c].pc = "log" /\ calls'[c].pc = "done") =>
                events'[Len(events')].brief = TransitionEvent(c).brief]_vars

\* the log holds a brief that was cut to 60 characters and a brief of a
\* transition that was not
C20_Witness ==
    /\ \E i \in DOMAIN events :
          /\ events[i].call = 0
          /\ Len(events[i].brief) = BriefMax
          /\ events[i].brief \notin LogBriefs
    /\ \E i \in DOMAIN events :
          /\ events[i].call # 0
          /\ Len(events[i].brief) < BriefMax

\* C28: no project has two phases of one name, and create_phase for a
\* (project, name) pair that exists is rejected and leaves the table of
\* phases as it was.
C28_PhaseNameUniquePerProject ==
    [][/\ \A k \in DOMAIN phases : phases'[k].rows <= 1
       /\ calls' = calls =>
            \A k \in DOMAIN phases : phases[k].rows = 1 => phases'[k] = phases[k]]_vars

\* both phase names exist once in the project, one of them created with
\* status active and the other with the default
C28_Witness ==
    /\ \A name \in PhaseNames : phases[<<"p1", name>>].rows = 1
    /\ phases[<<"p1", "discovery">>].status = "active"
    /\ phases[<<"p1", "planning">>].status = "pending"
    /\ calls = <<>>

\* C29: the status of an existing phase changes only in the UPDATE of a
\* transition on its project; creating projects and phases, registering
\* agents and logging events leave it, and no step removes a phase.
C29_StatusChangedOnlyByTransition ==
    [][\A k \in DOMAIN phases :
          phases[k] # NoPhase =>
              /\ phases'[k] # NoPhase
              /\ phases'[k].rows >= phases[k].rows
              /\ phases'[k].status # phases[k].status =>
                    \E c \in Started :
                        /\ calls[c].pc \in {"old", "new"}
                        /\ calls'[c].pc \in {"new", "log"}
                        /\ calls[c].projectId = k[1]]_vars

\* discovery was completed by a transition that changed that one row, and
\* planning, created as active, is still active after an agent was
\* registered and an event was logged
C29_Witness ==
    /\ phases[<<"p1", "discovery">>].status = "completed"
    /\ phases[<<"p1", "planning">>].status = "active"
    /\ agents # {}
    /\ \E i \in DOMAIN events : events[i].call = 0
    /\ \E c \in Started : calls[c].pc = "done" /\ calls[c].changes = 1

\* ------------------------------------------------------------------------
\* Properties of transitions on several projects
\* ------------------------------------------------------------------------
\* no other request names the project of request c
Alone(cs, c) == \A d \in DOMAIN cs : d # c => cs[d].projectId # cs[c].projectId

\* C26: a transition on project P changes no phase row of another project,
\* and transitions on different projects, however their statements
\* interleave, leave the statuses that running each alone leaves:
\* toPhase active, fromPhase completed.
C26_ProjectsIndependent ==
    [][/\ \A c \in Started :
            calls'[c] # calls[c] =>
                \A k \in DOMAIN phases :
                    k[1] # calls[c].projectId => phases'[k] = phases[k]
       /\ \A c \in DOMAIN calls' :
            (calls'[c].pc = "done" /\ Alone(calls', c)) =>
                /\ phases'[<<calls'[c].projectId, calls'[c].toPhase>>].status =
                      IF calls'[c].toExisted THEN "active" ELSE "none"
                /\ calls'[c].fromPhase # calls'[c].toPhase =>
                      phases'[<<calls'[c].projectId, calls'[c].fromPhase>>].status =
                          IF calls'[c].fromExisted THEN "completed" ELSE "none"]_vars

\* two requests on different projects, the second started and finished
\* while the first was between its statements, both having changed two rows
C26_Witness ==
    /\ Len(calls) = 2
    /\ calls[1].projectId # calls[2].projectId
    /\ calls[1].pc = "log" /\ calls[1].changes = 2
    /\ calls[2].pc = "done" /\ calls[2].changes = 2
    /\ calls[1].fromPhase = calls[2].fromPhase
    /\ calls[1].fromPhase # calls[1].toPhase

\* C27: gateApproval is no precondition: a request with gateApproval
\* false or left out runs as one with gateApproval true does (the same
\* rows changed, success, one event), and the value given is what the
\* event's data records.
C27_GateApprovalOnlyRecorded ==
    \A c \in Started :
        /\ calls[c].result \in {"pending", "success", "InternalError"}
        /\ calls[c].pc \in {"log", "done"} =>
              calls[c].changes = (IF calls[c].fromExisted THEN 1 ELSE 0)
                                 + (IF calls[c].toExisted THEN 1 ELSE 0)
        /\ calls[c].pc = "done" => (Logged(c) /\ calls[c].result = "success")
        /\ \A i \in DOMAIN events :
              events[i].call = c =>
                  IF calls[c].gateApproval = NULL
                  THEN ~HasField(events[i].data, "gateApproval")
                  ELSE /\ HasField(events[i].data, "gateApproval")
                       /\ events[i].data.gateApproval = calls[c].gateApproval

\* a request without gateApproval and one with gateApproval false, both
\* returned success after changing two rows
C27_Witness ==
    /\ Len(calls) = 2
    /\ calls[1].gateApproval = NULL /\ calls[2].gateApproval = "false"
    /\ \A c \in {1, 2} :
          /\ calls[c].pc = "done" /\ calls[c].result = "success"
          /\ calls[c].changes = 2
          /\ Logged(c)

\* ------------------------------------------------------------------------
\* Properties of events: ids, peers, dispatch order, immutability
\* ------------------------------------------------------------------------
\* C21: no two events emit creates have the same id.
C21_EventIdsUnique ==
    \A i, j \in DOMAIN eventHistory :
        (/\ i # j
         /\ HasField(eventHistory[i], "id") /\ HasField(eventHistory[j], "id")
         /\ eventHistory[i].id \in EventIds /\ eventHistory[j].id \in EventIds)
        => eventHistory[i].id # eventHistory[j].id

\* C23: an event a peer sent is put into the history with the fields the
\* peer gave it, the brief among them, and goes to the hooks of its type in
\* the order and with the outcomes emit has for a local event of the type;
\* no hook's failure leaves handleIncomingEvent.
C23_PeerEventAsLocal ==
    [][\A msg \in Messages, ids \in IdSeqs(MaxHooks) :
          (msg.kind = "event" /\ OnMessage(msg, ids)) =>
              /\ last'.log # <<>> => last'.log[1].inHistory
              /\ Reemits(msg.event.type) = 0 =>
                    /\ eventHistory'[Len(eventHistory')].n = seq + 1
                    /\ \A f \in DOMAIN msg.event :
                          eventHistory'[Len(eventHistory')][f] = msg.event[f]
              /\ last'.bound = HooksFor(hooks, msg.event.type)
              /\ last'.invoked =
                    emit(Now(ws, [i \in 1..(1 + MaxHooks) |-> "evt_1"]),
                         msg.event.type, msg.event.data, NoOptions).invoked
              /\ last'.result = "returned"]_vars

\* the peer's event is the last of the history with the brief the peer
\* gave; the default hook and a failing hook of the page were called
C23_Witness ==
    /\ last.op = "message" /\ last.result = "returned"
    /\ Len(last.invoked) = 2
    /\ \E i \in DOMAIN last.invoked : last.invoked[i][2] = "caught"
    /\ eventHistory[Len(eventHistory)].id = "evt_r"
    /\ eventHistory[Len(eventHistory)].brief = "Planning starts"
    /\ currentPhase = "planning"

\* C24: the hooks of one event are all called before a hook of another
\* event is: the calls of one event are not interrupted by those of
\* another, also when a hook calls emit.
C24_DispatchSerialized ==
    \A i, j, k \in DOMAIN last.log :
        (i < j /\ j < k /\ last.log[i].n = last.log[k].n) =>
            last.log[j].n = last.log[i].n

\* the first call of each event's hooks
FirstCalls(log) ==
    {i \in DOMAIN log : \A j \in DOMAIN log : log[j].n = log[i].n => i <= j}

Appended == seq' - seq

Evicted ==
    IF Len(eventHistory) + Appended > maxEventHistory
    THEN Min(Len(eventHistory), Len(eventHistory) + Appended - maxEventHistory)
    ELSE 0

\* C30: an event in the history stays as it is: a step leaves every event
\* of the history unchanged and in place, but for the oldest ones that
\* leave when the history is over its cap.
C30_EventsImmutable ==
    [][/\ Len(eventHistory') = Min(maxEventHistory, Len(eventHistory) + Appended)
       /\ \A i \in (Evicted + 1)..Len(eventHistory) :
             eventHistory'[i - Evicted] = eventHistory[i]]_vars

\* the history holds an event emitted in phase discovery and a later one,
\* the oldest event has left, and the current phase is planning
C30_Witness ==
    /\ Len(eventHistory) = 2 /\ seq = 3
    /\ eventHistory[1].n = 2 /\ HasField(eventHistory[1], "phase")
    /\ eventHistory[1].phase = "discovery"
    /\ eventHistory[1].type = "phase_transition"
    /\ currentPhase = "planning"

\* the events that have the value of the filter in every field the filter gives
RECURSIVE Matching(_, _)
Matching(list, filter) ==
    IF list = <<>> THEN <<>>
    ELSE (IF \A f \in {"phase", "agent", "type"} \cap DOMAIN filter :
                HasField(Head(list), f) /\ Head(list)[f] = filter[f]
          THEN <<Head(list)>> ELSE <<>>)
         \o Matching(Tail(list), filter)

\* C22: getEventHistory(filter) returns the events of the history, in
\* order, that match every criterion the filter gives among phase, agent
\* and type; all of them for an empty filter.
C22_QueryReturnsMatching ==
    last.op = "query" =>
        /\ ~last.result.threw
        /\ last.result.events = Matching(eventHistory, last.filter)

\* ------------------------------------------------------------------------
\* Properties of failed transitions and of the queries of the server
\* ------------------------------------------------------------------------
\* C32: when the first UPDATE of a transition ran and the second is
\* rejected, nothing is undone: the step leaves every phase row as the first
\* UPDATE left it and logs nothing, the request never gets an event, and a
\* project whose only active phase was fromPhase has no active phase.
C32_NoCompensation ==
    [][/\ \A c \in Started :
            (calls[c].pc = "new" /\ calls'[c].pc = "failed") =>
                /\ phases' = phases
                /\ events' = events
                /\ calls'[c].result = "InternalError"
                /\ (/\ Alone(calls, c)
                    /\ calls[c].fromExisted
                    /\ \A n \in PhaseNames \ {calls[c].fromPhase} :
                          phases[<<calls[c].projectId, n>>].status # "active")
                   => ActivePhases(phases', calls[c].projectId) = {}
       /\ \A c \in Started :
            calls[c].pc = "failed" => (calls'[c] = calls[c] /\ ~Logged(c))]_vars

\* the request found discovery active and planning pending, completed
\* discovery, failed at the second UPDATE: no phase of the project is
\* active and table events is empty
C32_Witness ==
    /\ Len(calls) = 1
    /\ calls[1].pc = "failed" /\ calls[1].changes = 1
    /\ calls[1].fromWasActive /\ calls[1].toExisted
    /\ calls[1].fromPhase = "discovery" /\ calls[1].toPhase = "planning"
    /\ phases[<<"p1", "discovery">>].status = "completed"
    /\ phases[<<"p1", "planning">>].status = "pending"
    /\ ActivePhases(phases, "p1") = {}
    /\ events = <<>>

\* C37: getCurrentPhase(projectId) gives only a phase of the project whose
\* status is active, gives nothing when the project has no active phase,
\* and right after a transition to T has returned success it gives T.
C37_CurrentPhaseAfterTransition ==
    [][/\ \A projectId \in ProjectIds :
            /\ \A n \in getCurrentPhase(phases', projectId) :
                  phases'[<<projectId, n>>].status = "active"
            /\ ActivePhases(phases', projectId) = {} =>
                  getCurrentPhase(phases', projectId) = {}
       /\ \A c \in Started :
            (calls[c].pc = "log" /\ calls'[c].pc = "done") =>
                getCurrentPhase(phases', calls[c].projectId) = {calls[c].toPhase}]_vars

\* the criteria a get_events request gives
Criteria(filter) == {"type", "phaseId", "agentId"} \cap DOMAIN filter

\* the value a row has for a criterion
ColumnOf(row, f) ==
    CASE f = "type" -> row.type
      [] f = "agentId" -> row.agent_id
      [] f = "phaseId" -> PhaseIdOf(row)

\* C38: get_events returns only rows of the project that match every
\* criterion given among type, phaseId and agentId, never more than limit
\* rows when a limit is given, and without a limit every such row.
C38_EventsOfProjectMatching ==
    last.op = "get_events" =>
        /\ \A i \in last.rows :
              /\ events[i].project_id = last.projectId
              /\ \A f \in Criteria(last.filter) :
                    ColumnOf(events[i], f) = last.filter[f]
        /\ "limit" \in DOMAIN last.filter => Cardinality(last.rows) <= last.filter.limit
        /\ "limit" \notin DOMAIN last.filter =>
              \A i \in 1..last.count :
                  (/\ events[i].project_id = last.projectId
                   /\ \A f \in Criteria(last.filter) :
                         ColumnOf(events[i], f) = last.filter[f])
                  => i \in last.rows

\* ------------------------------------------------------------------------
\* Properties of the snapshot, the current phase and the socket
\* ------------------------------------------------------------------------
\* C31: the recentEvents of getCurrentState are the last min(10, length)
\* events of the history, in the order of the history.
C31_SnapshotRecentEvents ==
    last.op = "snapshot" =>
        /\ Len(last.state.recentEvents) = Min(RecentEvents, Len(eventHistory))
        /\ \A i \in 1..Len(last.state.recentEvents) :
              last.state.recentEvents[i] =
                  eventHistory[Len(eventHistory) - Len(last.state.recentEvents) + i]

\* a snapshot of a history of twelve events: ten events, from the third on
C31_Witness ==
    /\ last.op = "snapshot"
    /\ Len(eventHistory) = 12
    /\ Len(last.state.recentEvents) = 10
    /\ last.state.recentEvents[1].n = 3
    /\ last.state.recentEvents[10].n = 12

\* the sockets that are connecting or open
LiveSockets == IF ws \in {CONNECTING, OPEN} THEN 1 ELSE 0

\* C35: the sockets that are connecting or open and the reconnect timers
\* that have not fired are never more than one together, whatever open,
\* error and close events come.
C35_OneReconnectAtATime == LiveSockets + timers <= 1

\* a socket is connecting again after events went out on an earlier one
\* that has closed since
C35_Witness ==
    /\ ws = CONNECTING /\ timers = 0
    /\ sent # <<>>

\* C36: with the socket open and the page not offline, an event emit
\* creates goes out on the socket once, and the events go out in the order
\* of their emit calls, those of hooks included.
C36_SentOnceInOrder ==
    /\ \A i, j \in DOMAIN sent : i < j => sent[i].n < sent[j].n
    /\ (last.op = "emit" /\ ws = OPEN /\ ~offlineMode) =>
          Cardinality({i \in DOMAIN sent : sent[i].n = last.n}) = 1

\* C33: currentPhase is the data.to of the phase_transition event
\* dispatched last (discovery before the first), also when another hook of
\* the event threw; a phase_transition event emit creates has the phase
\* that was current before it, and every event emit creates after it has
\* the new one.
DispatchesTransition ==
    /\ last'.op \in {"emit", "message"}
    /\ last'.n = seq + 1
    /\ \E i \in DOMAIN last'.bound : last'.bound[i].fn = "setPhase"

C33_CurrentPhaseFollowsTransitions ==
    [][/\ ~DispatchesTransition => currentPhase' = currentPhase
       /\ \A i \in DOMAIN eventHistory' :
            (DispatchesTransition /\ eventHistory'[i].n = seq + 1) =>
                /\ currentPhase' = eventHistory'[i].data.to
                /\ eventHistory'[i].id \in EventIds =>
                      eventHistory'[i].phase = currentPhase
       /\ \A i, j \in DOMAIN eventHistory' :
            (/\ eventHistory'[j].n = eventHistory'[i].n + 1
             /\ HasField(eventHistory'[i], "type")
             /\ eventHistory'[i].type = "phase_transition"
             /\ HasField(eventHistory'[j], "id")
             /\ eventHistory'[j].id \in EventIds)
            => eventHistory'[j].phase = eventHistory'[i].data.to]_vars

\* C34: handling an event received from a peer never sends that event on
\* the socket and never writes it to localStorage; what is sent or written
\* while it is handled are only the events its hooks emit, so nothing when
\* no hook of its type calls emit.
C34_ReceivedNeverForwarded ==
    [][(last'.op = "message" /\ last'.n = seq + 1) =>
          /\ \A i \in DOMAIN sent' : sent'[i].n # seq + 1
          /\ \A i \in DOMAIN localStorage' : localStorage'[i][2].n # seq + 1
          /\ (\A i \in DOMAIN last'.bound : last'.bound[i].fn # "emit") =>
                (sent' = sent /\ localStorage' = localStorage)]_vars

\* a received phase_transition event has been dispatched to a hook that
\* emitted a note, and only the note went out
C34_Witness ==
    /\ last.op = "message"
    /\ \E i \in DOMAIN last.bound : last.bound[i].fn = "emit"
    /\ \E i \in DOMAIN eventHistory :
          /\ eventHistory[i].n = last.n
          /\ eventHistory[i].id = "evt_r"
    /\ \E i \in DOMAIN sent : sent[i].n = last.n + 1
    /\ \A i \in DOMAIN sent : sent[i].n # last.n

\* C34 as stated: handling a received event sends nothing on the socket
\* and writes nothing to localStorage.
C34_HandlingSendsNothing ==
    [][last'.op = "message" => (sent' = sent /\ localStorage' = localStorage)]_vars

====
